---------------------------- MODULE Spec2Model ----------------------------
(***************************************************************************)
(* A model of the hyperspectral classification notebook src/test2.ipynb:   *)
(*   - the sample indexer  HyperspectralDataset.__init__ / __len__,        *)
(*   - the empty-dataset guard and the stratified train/validation split   *)
(*     of cell 3f53122b,                                                   *)
(*   - the sample loader   HyperspectralDataset.__getitem__,               *)
(*   - the shape arithmetic of HyperspectralCNN.forward,                   *)
(*   - the epoch/phase/batch loop of train_model.                          *)
(* Each part has its own specification over the shared variables.          *)
(***************************************************************************)
EXTENDS Integers, Sequences, FiniteSets, TLC

VARIABLES
    \* ---- notebook cells d3561e74 and 3f53122b
    dir,          \* the files present in data_dir
    pc,           \* the position in the notebook's cell sequence
    file_paths,   \* dataset.file_paths
    labels,       \* dataset.labels
    train_idx,    \* first result of train_test_split
    val_idx,      \* second result of train_test_split
    error,        \* the text of the exception that ended the run, or "none"
    rng,          \* the stream of draws RandomState(42) stands for
    \* ---- HyperspectralDataset.__getitem__
    g_pc,         \* the statement __getitem__ is at
    g_file,       \* the array stored in file_paths[idx]: [shape, at]
    cube,         \* the local variable cube: [shape, at]
    item_label,   \* the local variable label
    \* ---- HyperspectralCNN.forward
    n_pc,         \* the statement forward is at
    n_input,      \* the shape of the batch forward was called with
    x_shape,      \* the shape of the local variable x
    n_error,      \* the RuntimeError that ended forward, or "none"
    \* ---- train_model
    t_pc,             \* the statement train_model is at
    num_epochs,       \* the argument num_epochs
    sizes,            \* len(dataloaders[phase].dataset), per phase
    batch_size,       \* the batch size of both loaders
    epoch,            \* the index the epoch loop is at
    phase_i,          \* the position of the phase loop in Phases
    training,         \* model.training, as model.train() / model.eval() set it
    params,           \* the model's parameters
    grad,             \* the parameters' .grad
    running_loss,
    running_corrects,
    batch_i,          \* the batches of this phase drawn from the loader so far
    cur_bs,           \* inputs.size(0) of the current batch
    loss,             \* loss.item() of the current batch
    batch_corrects,   \* torch.sum(preds == labels.data) of the current batch
    loss_grad,        \* the gradient of the current loss w.r.t. the parameters
    train_loss,       \* the training-loss history
    val_acc,          \* the validation-accuracy history
    best_acc,
    last_header,      \* the epoch number of the last "Epoch e/n" line printed
    last_line,        \* the last "<phase> Loss: .. Acc: .." line printed
    \* ---- bookkeeping for the properties (not program state)
    phase_start_params,  \* params when the current phase began
    batch_log,           \* the batches of the current phase: [bs, loss, corrects]
    n_backward,          \* loss.backward() calls for the current batch
    n_step               \* optimizer.step() calls for the current batch

idxVars == <<dir, rng, pc, file_paths, labels, train_idx, val_idx, error>>

itemVars == <<g_pc, g_file, cube, item_label>>

netVars == <<n_pc, n_input, x_shape, n_error>>

trainVars ==
    <<t_pc, num_epochs, sizes, batch_size, epoch, phase_i, training, params,
      grad, running_loss, running_corrects, batch_i, cur_bs, loss,
      batch_corrects, loss_grad, train_loss, val_acc, best_acc, last_header,
      last_line, phase_start_params, batch_log, n_backward, n_step>>

vars == <<idxVars, itemVars, netVars, trainVars>>

\* the parts of the notebook a specification does not run stay idle
IndexIdle ==
    /\ dir = {} /\ rng = 0 /\ pc = "idle" /\ file_paths = <<>> /\ labels = <<>>
    /\ train_idx = <<>> /\ val_idx = <<>> /\ error = "none"

ItemIdle ==
    /\ g_pc = "idle" /\ g_file = <<>> /\ cube = <<>> /\ item_label = 0

NetIdle ==
    /\ n_pc = "idle" /\ n_input = <<>> /\ x_shape = <<>> /\ n_error = "none"

NoLine == [phase |-> "none", loss |-> <<0, 1>>, acc |-> <<0, 1>>]

TrainIdle ==
    /\ t_pc = "idle" /\ num_epochs = 0 /\ sizes = <<>> /\ batch_size = 0
    /\ epoch = 0 /\ phase_i = 0 /\ training = TRUE /\ params = 0 /\ grad = 0
    /\ running_loss = 0 /\ running_corrects = 0 /\ batch_i = 0 /\ cur_bs = 0
    /\ loss = 0 /\ batch_corrects = 0 /\ loss_grad = 0
    /\ train_loss = <<>> /\ val_acc = <<>> /\ best_acc = 0
    /\ last_header = 0 /\ last_line = NoLine
    /\ phase_start_params = 0 /\ batch_log = <<>>
    /\ n_backward = 0 /\ n_step = 0

----------------------------------------------------------------------------
(***************************************************************************)
(* Arithmetic and sequence helpers.                                        *)
(***************************************************************************)
Min(a, b) == IF a < b THEN a ELSE b

Max(a, b) == IF a > b THEN a ELSE b

Range(s) == {s[k] : k \in DOMAIN s}

RECURSIVE SumSeq(_)
SumSeq(s) == IF s = <<>> THEN 0 ELSE Head(s) + SumSeq(Tail(s))

----------------------------------------------------------------------------
(***************************************************************************)
(* HyperspectralDataset.__init__                                           *)
(***************************************************************************)

\* self.class_labels, in the declared order
class_labels ==
    <<"canola", "soybean", "sugarbeet", "kochia",
      "common_ragweed", "common_waterhemp", "redroot_pigweed">>

\* range(1, 21): the last index probed per class
LastProbe == 20

\* A file name "<stem>_<idx>.<ext>".  The formatting f"{label}_{i}.npy" is
\* injective on (label, i) for the seven class names, so the name is kept as
\* its three parts.
FileName(label, i) == [stem |-> label, idx |-> i, ext |-> "npy"]

\* (variant: range(1, 20), the last index never probed)
ProbeIndicesShort == [k \in 1..(LastProbe - 1) |-> k]

\* range(1, 21) as the sequence it iterates
ProbeIndices == [k \in 1..LastProbe |-> k]

\* the inner loop for one class: the existing files, in ascending i, each
\* with label_idx (0-based, as enumerate gives it)
ClassEntries(d, label_idx) ==
    LET label == class_labels[label_idx + 1]
        hits  == SelectSeq(ProbeIndices, LAMBDA i : FileName(label, i) \in d)
    IN  [k \in 1..Len(hits) |-> <<FileName(label, hits[k]), label_idx>>]

\* the outer loop over enumerate(self.class_labels), from label_idx on
RECURSIVE Collect(_, _)
Collect(d, label_idx) ==
    IF label_idx >= Len(class_labels) THEN <<>>
    ELSE ClassEntries(d, label_idx) \o Collect(d, label_idx + 1)

\* __len__
DatasetLen == Len(file_paths)

----------------------------------------------------------------------------
(***************************************************************************)
(* The directories the model starts from.  Every stem (the seven classes   *)
(* and one that is no class) carries one of a few patterns of indices: no  *)
(* file, one file, the two ends of the range, a run with indices outside   *)
(* 1..20 and a file of another extension, and the full range.  A directory *)
(* is a base pattern with at most MaxOverride stems given another pattern. *)
(***************************************************************************)
MaxOverride == 1

Stems == Range(class_labels) \cup {"wheat"}

Npy(S) == {<<i, "npy">> : i \in S}

Patterns ==
    { {},
      Npy({7}),
      Npy({1, 20}),
      Npy({0, 3, 4, 5, 6, 21}) \cup {<<1, "txt">>, <<4, "txt">>},
      Npy(1..20) }

RECURSIVE Overrides(_)
Overrides(k) ==
    IF k = 0 THEN { [s \in {} |-> {}] }
    ELSE Overrides(k - 1) \cup
         { [s \in (DOMAIN f) \cup {t} |-> IF s = t THEN p ELSE f[s]] :
               f \in Overrides(k - 1), t \in Stems, p \in Patterns }

DirOf(base, over) ==
    UNION { { [stem |-> s, idx |-> e[1], ext |-> e[2]] :
                e \in (IF s \in DOMAIN over THEN over[s] ELSE base) } :
            s \in Stems }

Directories ==
    { DirOf(base, over) : base \in Patterns, over \in Overrides(MaxOverride) }

----------------------------------------------------------------------------
(***************************************************************************)
(* Cell 3f53122b: the empty-dataset guard and the call                     *)
(*   train_test_split(np.arange(len(dataset)), test_size=0.2,              *)
(*                    stratify=dataset.labels, random_state=42).           *)
(* The call is scikit-learn's stratified shuffle split: the sizes          *)
(* n_test = ceil(test_size * n), n_train = n - n_test, the three checks    *)
(* that raise ValueError, the per-class allocation (_approximate_mode) and *)
(* the per-class permutation whose first n_i members go to train and next  *)
(* t_i to test.                                                            *)
(***************************************************************************)

\* (variant: a guard that never fires)
IsEmptyNever(n) == n < 0

\* len(dataset) == 0
IsEmpty(n) == n = 0

EmptyMessage ==
    "The dataset is empty. Please check the data_dir and ensure it contains the expected .npy files."

\* (variant: test_size=0.5)
TestSizeHalf == 5 * 10

\* test_size=0.2, in percent
TestSizePercent == 20

\* n_test = ceil(test_size * n_samples)
NTest(n) == (n * TestSizePercent + 99) \div 100

\* n_train = n_samples - n_test (train_size is None)
NTrain(n) == n - NTest(n)

\* np.unique(y): the classes that occur in the labels
Classes(y) == Range(y)

\* np.bincount(y_indices)
ClassCounts(y) ==
    [c \in Classes(y) |-> Cardinality({k \in DOMAIN y : y[k] = c})]

\* the positions (0-based, as np.arange gives them) holding class c, ascending
ClassIndices(y, c) ==
    LET pos == SelectSeq([k \in 1..Len(y) |-> k], LAMBDA k : y[k] = c)
    IN  [j \in 1..Len(pos) |-> pos[j] - 1]

RECURSIVE SumOver(_, _)
SumOver(f, S) ==
    IF S = {} THEN 0
    ELSE LET c == CHOOSE x \in S : TRUE IN f[c] + SumOver(f, S \ {c})

SetMax(S) == CHOOSE x \in S : \A z \in S : z <= x

SetMin(S) == CHOOSE x \in S : \A z \in S : x <= z

\* the ValueError the split raises for labels y, or "none"
SplitError(y) ==
    LET n == Len(y)
        k == Cardinality(Classes(y))
    IN  IF NTrain(n) = 0 THEN "the resulting train set will be empty"
        ELSE IF SetMin(Range(ClassCounts(y))) < 2
             THEN "The least populated class in y has only 1 member"
        ELSE IF NTrain(n) < k
             THEN "The train_size should be greater or equal to the number of classes"
        ELSE IF NTest(n) < k
             THEN "The test_size should be greater or equal to the number of classes"
        ELSE "none"

\* The generator np.random.RandomState(42) is a fixed but unknown stream of
\* draws: the model takes the stream from 0..MaxStream and makes the d-th
\* kind of draw a rotation by rng + d, so that a split is a function of the
\* labels and the stream, and different streams give different splits.
MaxStream == 2

Rotate(s, k) ==
    IF s = <<>> THEN s
    ELSE [j \in 1..Len(s) |-> s[((j - 1 + k) % Len(s)) + 1]]

RECURSIVE SortedSeq(_)
SortedSeq(S) ==
    IF S = {} THEN <<>> ELSE <<SetMin(S)>> \o SortedSeq(S \ {SetMin(S)})

\* rng.permutation(s)
RngPermutation(s, draw) == Rotate(s, draw)

\* rng.choice(inds, size=k, replace=False)
RngChoice(inds, k, draw) == Range(SubSeq(Rotate(SortedSeq(inds), draw), 1, k))

\* _approximate_mode, the loop over the distinct remainders in descending
\* order: each ties group gets min(len(inds), need_to_add) increments, on
\* the members the generator picks
RECURSIVE AddByRemainder(_, _, _, _, _)
AddByRemainder(floored, rem, values, need, draw) ==
    IF need = 0 \/ values = {} THEN floored
    ELSE LET v       == SetMax(values)
             inds    == {c \in DOMAIN rem : rem[c] = v}
             add_now == Min(Cardinality(inds), need)
             picked  == RngChoice(inds, add_now, draw)
         IN  AddByRemainder(
                 [c \in DOMAIN floored |->
                     floored[c] + (IF c \in picked THEN 1 ELSE 0)],
                 rem, values \ {v}, need - add_now, draw + 1)

\* _approximate_mode(class_counts, n_draws, rng);
\* continuous = class_counts / class_counts.sum() * n_draws, in exact
\* arithmetic
ApproximateMode(counts, n_draws, draw) ==
    LET K       == DOMAIN counts
        total   == SumOver(counts, K)
        floored == [c \in K |-> (counts[c] * n_draws) \div total]
        rem     == [c \in K |-> (counts[c] * n_draws) % total]
        need    == n_draws - SumOver(floored, K)
    IN  AddByRemainder(floored, rem, Range(rem), need, draw)

\* perm_indices_class_i[: n_i[i]]
TrainSlice(perm, n) == SubSeq(perm, 1, Min(n, Len(perm)))

\* (variant: the test slice starts one position late)
TestSliceLate(perm, n, t) == SubSeq(perm, n + 2, Min(n + t, Len(perm)))

\* perm_indices_class_i[n_i[i] : n_i[i] + t_i[i]]
TestSlice(perm, n, t) == SubSeq(perm, n + 1, Min(n + t, Len(perm)))

\* the loop "for i in range(n_classes)": train.extend / test.extend for the
\* classes cs (ascending), each class permuted by its own draw
RECURSIVE ExtendAll(_, _, _, _, _)
ExtendAll(cs, y, n_i, t_i, draw) ==
    IF cs = {} THEN [train |-> <<>>, test |-> <<>>]
    ELSE LET c    == SetMin(cs)
             perm == RngPermutation(ClassIndices(y, c), draw)
             rest == ExtendAll(cs \ {c}, y, n_i, t_i, draw + 1)
         IN  [train |-> TrainSlice(perm, n_i[c]) \o rest.train,
              test  |-> TestSlice(perm, n_i[c], t_i[c]) \o rest.test]

\* the (train, test) index arrays of the split of labels y under stream r:
\* the allocations n_i and t_i, the class loop, and the final shuffle of
\* both arrays
StratifiedSplit(y, r) ==
    LET n      == Len(y)
        K      == Classes(y)
        counts == ClassCounts(y)
        n_i    == ApproximateMode(counts, NTrain(n), r)
        t_i    == ApproximateMode([c \in K |-> counts[c] - n_i[c]], NTest(n), r + 1)
        ext    == ExtendAll(K, y, n_i, t_i, r + 2)
    IN  [train |-> RngPermutation(ext.train, r + 3),
         test  |-> RngPermutation(ext.test, r + 4)]

----------------------------------------------------------------------------
(***************************************************************************)
(* The notebook run: cell d3561e74 builds the dataset, cell 3f53122b       *)
(* guards and splits.  An exception ends the run.                          *)
(***************************************************************************)
IndexInit ==
    /\ dir \in Directories
    /\ pc = "cell_d3561e74"
    /\ file_paths = <<>>
    /\ labels = <<>>
    /\ train_idx = <<>>
    /\ val_idx = <<>>
    /\ error = "none"
    /\ rng = 0
    /\ ItemIdle /\ NetIdle /\ TrainIdle

\* dataset = HyperspectralDataset(data_dir)
ConstructDataset ==
    /\ pc = "cell_d3561e74"
    /\ LET entries == Collect(dir, 0)
       IN  /\ file_paths' = [k \in 1..Len(entries) |-> entries[k][1]]
           /\ labels' = [k \in 1..Len(entries) |-> entries[k][2]]
    /\ pc' = "cell_3f53122b"
    /\ UNCHANGED <<dir, rng, train_idx, val_idx, error>>
    /\ UNCHANGED <<itemVars, netVars, trainVars>>

\* if len(dataset) == 0: raise ValueError(...); otherwise the call of
\* train_test_split is next, and random_state=42 fixes the stream it draws
\* from
EmptyGuard ==
    /\ pc = "cell_3f53122b"
    /\ IF IsEmpty(DatasetLen)
       THEN pc' = "raised" /\ error' = EmptyMessage /\ rng' = rng
       ELSE pc' = "train_test_split" /\ error' = error
            /\ rng' \in 0..MaxStream
    /\ UNCHANGED <<dir, file_paths, labels, train_idx, val_idx>>
    /\ UNCHANGED <<itemVars, netVars, trainVars>>

\* train_idx, val_idx = train_test_split(...)
TrainTestSplit ==
    /\ pc = "train_test_split"
    /\ IF SplitError(labels) # "none"
       THEN /\ pc' = "raised"
            /\ error' = SplitError(labels)
            /\ UNCHANGED <<rng, train_idx, val_idx>>
       ELSE /\ rng' = rng
            /\ train_idx' = StratifiedSplit(labels, rng).train
            /\ val_idx' = StratifiedSplit(labels, rng).test
            /\ pc' = "done"
            /\ error' = error
    /\ UNCHANGED <<dir, file_paths, labels>>
    /\ UNCHANGED <<itemVars, netVars, trainVars>>

IndexNext == ConstructDataset \/ EmptyGuard \/ TrainTestSplit

SpecIndex == IndexInit /\ [][IndexNext]_vars

----------------------------------------------------------------------------
(***************************************************************************)
(* HyperspectralDataset.__getitem__: load, permute to (C, H, W), bilinear  *)
(* resize to (C, 32, 32), global min-max normalisation, label.             *)
(* An array is [shape, at]: at maps every index tuple (1-based) to its     *)
(* value.  Values are kept exact: the resized values as integers in units  *)
(* of 1/4096, and a float quotient as [kind, num, den]: "finite" with its  *)
(* numerator and denominator, or "nan", "inf", "-inf" for a division by    *)
(* zero.                                                                   *)
(***************************************************************************)

\* size=(32, 32)
ImageSide == 32

Indices(shape) ==
    {<<a, b, c>> : a \in 1..shape[1], b \in 1..shape[2], c \in 1..shape[3]}

\* the arrays np.load can return: (H, W, C) cubes with sides up to MaxSide
\* and up to MaxBands bands, constant or with one cell that differs
MaxSide == 2

MaxBands == 2

CellValues == {-1, 0, 2}

Cubes ==
    UNION { { [shape |-> <<h, w, c>>,
               at |-> [i \in Indices(<<h, w, c>>) |-> IF i = p THEN a ELSE b]] :
                 p \in Indices(<<h, w, c>>), a \in CellValues, b \in CellValues } :
            h \in 1..MaxSide, w \in 1..MaxSide, c \in 1..MaxBands }

\* the labels of the dataset __getitem__ reads self.labels[idx] from
ItemLabels == <<0, 3, 6>>

\* torch.tensor(cube).permute(2, 0, 1): (H, W, C) -> (C, H, W)
Permute201(t) ==
    LET sh == <<t.shape[3], t.shape[1], t.shape[2]>>
    IN  [shape |-> sh,
         at |-> [i \in Indices(sh) |-> t.at[<<i[2], i[3], i[1]>>]]]

\* bilinear, align_corners=False: output position o (1-based) of a side of
\* length n_in reads the source coordinate (o - 0.5) * n_in / 32 - 0.5,
\* clamped at 0; Src64 is that coordinate in units of 1/64
Src64(o, n_in) == Max(0, (2 * o - 1) * n_in - ImageSide)

\* the lower source index (1-based), the upper one, and the weight of the
\* upper one in units of 1/64
Lower(o, n_in) == (Src64(o, n_in) \div (2 * ImageSide)) + 1

Upper(o, n_in) == Min(Lower(o, n_in) + 1, n_in)

Lambda64(o, n_in) == Src64(o, n_in) % (2 * ImageSide)

\* nn.functional.interpolate(cube.unsqueeze(0), size=(32, 32),
\* mode='bilinear').squeeze(0); the values in units of 1/4096
Interpolate(t) ==
    LET c  == t.shape[1]
        h  == t.shape[2]
        w  == t.shape[3]
        sh == <<c, ImageSide, ImageSide>>
        W1(o, n) == Lambda64(o, n)
        W0(o, n) == 2 * ImageSide - Lambda64(o, n)
    IN  [shape |-> sh,
         at |-> [i \in Indices(sh) |->
                   W0(i[2], h) * ( W0(i[3], w) * t.at[<<i[1], Lower(i[2], h), Lower(i[3], w)>>]
                                 + W1(i[3], w) * t.at[<<i[1], Lower(i[2], h), Upper(i[3], w)>>] )
                 + W1(i[2], h) * ( W0(i[3], w) * t.at[<<i[1], Upper(i[2], h), Lower(i[3], w)>>]
                                 + W1(i[3], w) * t.at[<<i[1], Upper(i[2], h), Upper(i[3], w)>>] )]]

\* float division a / b
FloatDiv(a, b) ==
    IF b # 0 THEN [kind |-> "finite", num |-> a, den |-> b]
    ELSE [kind |-> IF a = 0 THEN "nan" ELSE IF a > 0 THEN "inf" ELSE "-inf",
          num |-> 0, den |-> 0]

\* (cube - cube.min()) / (cube.max() - cube.min())
Normalize(t) ==
    LET lo == SetMin(Range(t.at))
        hi == SetMax(Range(t.at))
    IN  [shape |-> t.shape,
         at |-> [i \in DOMAIN t.at |-> FloatDiv(t.at[i] - lo, hi - lo)]]

ItemInit ==
    /\ g_pc = "load"
    /\ g_file \in Cubes
    /\ cube = <<>>
    /\ item_label \in Range(ItemLabels)
    /\ IndexIdle /\ NetIdle /\ TrainIdle

\* cube = np.load(self.file_paths[idx])
Load ==
    /\ g_pc = "load"
    /\ cube' = g_file
    /\ g_pc' = "permute"
    /\ UNCHANGED <<g_file, item_label, idxVars, netVars, trainVars>>

\* cube = torch.tensor(cube, dtype=torch.float32).permute(2, 0, 1)
PermuteStep ==
    /\ g_pc = "permute"
    /\ cube' = Permute201(cube)
    /\ g_pc' = "interpolate"
    /\ UNCHANGED <<g_file, item_label, idxVars, netVars, trainVars>>

\* cube = nn.functional.interpolate(...)
InterpolateStep ==
    /\ g_pc = "interpolate"
    /\ cube' = Interpolate(cube)
    /\ g_pc' = "normalize"
    /\ UNCHANGED <<g_file, item_label, idxVars, netVars, trainVars>>

\* cube = (cube - cube.min()) / (cube.max() - cube.min());
\* label = torch.tensor(self.labels[idx]); return cube, label
NormalizeStep ==
    /\ g_pc = "normalize"
    /\ cube' = Normalize(cube)
    /\ g_pc' = "return"
    /\ UNCHANGED <<g_file, item_label, idxVars, netVars, trainVars>>

ItemNext == Load \/ PermuteStep \/ InterpolateStep \/ NormalizeStep

SpecItem == ItemInit /\ [][ItemNext]_vars

----------------------------------------------------------------------------
(***************************************************************************)
(* HyperspectralCNN: the shapes forward computes.  x is (B, C, H, W); the  *)
(* loader's cubes are (C, 32, 32).  A convolution or pooling whose window  *)
(* exceeds its input, and a Linear whose in_features differ from the last  *)
(* dimension of its input, raise RuntimeError.                             *)
(***************************************************************************)

\* kernel_size=(3, 3, 10) of conv1 and conv2, stride 1, no padding
ConvKernel == <<3, 3, 10>>

\* kernel_size=(2, 2, 2) of pool1 (its stride is the kernel)
PoolKernel == <<2, 2, 2>>

\* Conv3d(1, 32, ...) and Conv3d(32, 64, ...): the output channels
Conv1Out == 32

Conv2Out == 64

\* nn.Linear(64 * 15 * 15 * 53, 128)
Fc1In == 64 * 15 * 15 * 53

Fc1Out == 128

\* num_classes
NumClasses == Len(class_labels)

\* the batches forward is given: the loader's (B, C, 32, 32) for up to
\* MaxNetBands bands, and a family of other spatial sizes
MaxNetBands == 230

MaxNetBatch == 2

OtherSizes == {<<36, 36, w>> : w \in 130..136}

NetInputs ==
    {<<b, c, ImageSide, ImageSide>> : b \in 1..MaxNetBatch, c \in 1..MaxNetBands}
    \cup {<<b, z[1], z[2], z[3]>> : b \in 1..MaxNetBatch, z \in OtherSizes}

\* one output side of a convolution with stride 1: d - k + 1
ConvSide(d, k) == d - k + 1

\* one output side of a max-pooling with stride k, floor mode
PoolSide(d, k) == ((d - k) \div k) + 1

\* Conv3d on (B, c_in, D, H, W)
ConvShape(sh, out) ==
    <<sh[1], out, ConvSide(sh[3], ConvKernel[1]),
      ConvSide(sh[4], ConvKernel[2]), ConvSide(sh[5], ConvKernel[3])>>

ConvFits(sh) == \A j \in 1..3 : sh[j + 2] >= ConvKernel[j]

\* MaxPool3d on (B, c, D, H, W)
PoolShape(sh) ==
    <<sh[1], sh[2], PoolSide(sh[3], PoolKernel[1]),
      PoolSide(sh[4], PoolKernel[2]), PoolSide(sh[5], PoolKernel[3])>>

PoolFits(sh) == \A j \in 1..3 : sh[j + 2] >= PoolKernel[j]

\* torch.flatten(x, 1)
FlattenShape(sh) == <<sh[1], sh[2] * sh[3] * sh[4] * sh[5]>>

NetInit ==
    /\ n_pc = "unsqueeze"
    /\ n_input \in NetInputs
    /\ x_shape = n_input
    /\ n_error = "none"
    /\ IndexIdle /\ ItemIdle /\ TrainIdle

\* x = x.unsqueeze(1)
Unsqueeze ==
    /\ n_pc = "unsqueeze"
    /\ x_shape' = <<x_shape[1], 1, x_shape[2], x_shape[3], x_shape[4]>>
    /\ n_pc' = "conv1"
    /\ UNCHANGED <<n_input, n_error, idxVars, itemVars, trainVars>>

\* x = self.pool1(torch.relu(self.conv1(x)))
Conv1Pool1 ==
    /\ n_pc = "conv1"
    /\ IF ~ConvFits(x_shape)
       THEN /\ n_pc' = "raised"
            /\ n_error' = "Kernel size can't be greater than actual input size"
            /\ x_shape' = x_shape
       ELSE IF ~PoolFits(ConvShape(x_shape, Conv1Out))
       THEN /\ n_pc' = "raised"
            /\ n_error' = "Output size is too small"
            /\ x_shape' = x_shape
       ELSE /\ n_pc' = "conv2"
            /\ x_shape' = PoolShape(ConvShape(x_shape, Conv1Out))
            /\ n_error' = n_error
    /\ UNCHANGED <<n_input, idxVars, itemVars, trainVars>>

\* x = torch.relu(self.conv2(x))
Conv2 ==
    /\ n_pc = "conv2"
    /\ IF ~ConvFits(x_shape)
       THEN /\ n_pc' = "raised"
            /\ n_error' = "Kernel size can't be greater than actual input size"
            /\ x_shape' = x_shape
       ELSE /\ n_pc' = "flatten"
            /\ x_shape' = ConvShape(x_shape, Conv2Out)
            /\ n_error' = n_error
    /\ UNCHANGED <<n_input, idxVars, itemVars, trainVars>>

\* x = torch.flatten(x, 1)
Flatten ==
    /\ n_pc = "flatten"
    /\ x_shape' = FlattenShape(x_shape)
    /\ n_pc' = "fc1"
    /\ UNCHANGED <<n_input, n_error, idxVars, itemVars, trainVars>>

\* x = torch.relu(self.fc1(x))
Fc1 ==
    /\ n_pc = "fc1"
    /\ IF x_shape[2] # Fc1In
       THEN /\ n_pc' = "raised"
            /\ n_error' = "mat1 and mat2 shapes cannot be multiplied"
            /\ x_shape' = x_shape
       ELSE /\ n_pc' = "fc2"
            /\ x_shape' = <<x_shape[1], Fc1Out>>
            /\ n_error' = n_error
    /\ UNCHANGED <<n_input, idxVars, itemVars, trainVars>>

\* x = self.dropout(x); x = self.fc2(x); return x
DropoutFc2 ==
    /\ n_pc = "fc2"
    /\ x_shape' = <<x_shape[1], NumClasses>>
    /\ n_pc' = "return"
    /\ UNCHANGED <<n_input, n_error, idxVars, itemVars, trainVars>>

NetNext == Unsqueeze \/ Conv1Pool1 \/ Conv2 \/ Flatten \/ Fc1 \/ DropoutFc2

SpecNet == NetInit /\ [][NetNext]_vars

----------------------------------------------------------------------------
(***************************************************************************)
(* train_model(model, dataloaders, criterion, optimizer, num_epochs).      *)
(* The loaders are torch DataLoaders with their default batching: a        *)
(* loader over a dataset of n >= 1 samples yields ceil(n / B) batches of B *)
(* samples, the last one holding the rest.  The forward pass and the       *)
(* criterion are the framework's: the model takes a loss (cross-entropy,   *)
(* never negative), a number of correct predictions and, when gradients    *)
(* are enabled, a gradient from small sets.  backward() adds the gradient  *)
(* of the loss to .grad, and the optimizer moves the parameters by .grad.  *)
(***************************************************************************)

\* the largest num_epochs the model runs
MaxEpochs == 2

\* len(dataset) of the two loaders
LoaderSizes ==
    { [train |-> 3, val |-> 2], [train |-> 2, val |-> 1] }

BatchSizes == {1, 2}

LossValues == {0, 3}

GradValues == {0, 1}

ParamValues == 0..1

\* for phase in ['train', 'val']
Phases == <<"train", "val">>

phase == IF phase_i \in DOMAIN Phases THEN Phases[phase_i] ELSE "none"

\* (variant: every phase is treated as the training phase)
AlwaysTrain(p) == TRUE

\* phase == 'train'
IsTrainPhase(p) == p = "train"

\* (variant: range(num_epochs + 1))
EpochRangeLong(n) == 0..n

\* range(num_epochs)
EpochRange(n) == 0..(n - 1)

\* the sizes of the batches a loader yields over n samples
LoaderBatches(n, b) ==
    [k \in 1..((n + b - 1) \div b) |-> IF k * b <= n THEN b ELSE n - (k - 1) * b]

Batches == LoaderBatches(sizes[phase], batch_size)

\* (variant: zero_grad that leaves the gradients)
KeepGrad(g) == g

\* optimizer.zero_grad()
ZeroGrad(g) == 0

\* loss.backward(): the gradient of the loss is added to .grad
BackwardInto(g, dl) == g + dl

\* optimizer.step()
OptimizerStep(p, g) == (p - g) % Cardinality(ParamValues)

\* (variant: the batch loss is not scaled by the batch size)
LossTermUnscaled(l, bs) == l

\* loss.item() * inputs.size(0)
LossTerm(l, bs) == l * bs

TrainInit ==
    /\ t_pc = "epoch_loop"
    /\ num_epochs \in 0..MaxEpochs
    /\ sizes \in LoaderSizes
    /\ batch_size \in BatchSizes
    /\ epoch = 0 /\ phase_i = 0 /\ training = TRUE
    /\ params \in ParamValues /\ grad = 0
    /\ running_loss = 0 /\ running_corrects = 0 /\ batch_i = 0 /\ cur_bs = 0
    /\ loss = 0 /\ batch_corrects = 0 /\ loss_grad = 0
    /\ train_loss = <<>> /\ val_acc = <<>> /\ best_acc = 0
    /\ last_header = 0 /\ last_line = NoLine
    /\ phase_start_params = params /\ batch_log = <<>>
    /\ n_backward = 0 /\ n_step = 0
    /\ IndexIdle /\ ItemIdle /\ NetIdle

\* for epoch in range(num_epochs): print(f'Epoch {epoch+1}/{num_epochs}');
\* after the last epoch: return model, train_loss, val_acc
EpochLoop ==
    /\ t_pc = "epoch_loop"
    /\ IF epoch \in EpochRange(num_epochs)
       THEN /\ last_header' = epoch + 1
            /\ phase_i' = 1
            /\ t_pc' = "phase_loop"
       ELSE /\ t_pc' = "return"
            /\ UNCHANGED <<last_header, phase_i>>
    /\ UNCHANGED <<num_epochs, sizes, batch_size, epoch, training, params, grad,
                   running_loss, running_corrects, batch_i, cur_bs, loss,
                   batch_corrects, loss_grad, train_loss, val_acc, best_acc,
                   last_line, phase_start_params, batch_log, n_backward, n_step>>
    /\ UNCHANGED <<idxVars, itemVars, netVars>>

\* for phase in ['train', 'val']: model.train() or model.eval();
\* running_loss = 0.0; running_corrects = 0.  After 'val' the epoch ends.
PhaseLoop ==
    /\ t_pc = "phase_loop"
    /\ IF phase_i \in DOMAIN Phases
       THEN /\ training' = IsTrainPhase(phase)
            /\ running_loss' = 0
            /\ running_corrects' = 0
            /\ batch_i' = 0
            /\ phase_start_params' = params
            /\ batch_log' = <<>>
            /\ t_pc' = "batch_loop"
            /\ UNCHANGED epoch
       ELSE /\ epoch' = epoch + 1
            /\ t_pc' = "epoch_loop"
            /\ UNCHANGED <<training, running_loss, running_corrects, batch_i,
                           phase_start_params, batch_log>>
    /\ UNCHANGED <<num_epochs, sizes, batch_size, phase_i, params, grad, cur_bs,
                   loss, batch_corrects, loss_grad, train_loss, val_acc,
                   best_acc, last_header, last_line, n_backward, n_step>>
    /\ UNCHANGED <<idxVars, itemVars, netVars>>

\* for inputs, labels in dataloaders[phase]: the next batch, or the end of
\* the loader
BatchLoop ==
    /\ t_pc = "batch_loop"
    /\ IF batch_i < Len(Batches)
       THEN /\ batch_i' = batch_i + 1
            /\ cur_bs' = Batches[batch_i + 1]
            /\ n_backward' = 0
            /\ n_step' = 0
            /\ t_pc' = "zero_grad"
       ELSE /\ t_pc' = "phase_end"
            /\ UNCHANGED <<batch_i, cur_bs, n_backward, n_step>>
    /\ UNCHANGED <<num_epochs, sizes, batch_size, epoch, phase_i, training,
                   params, grad, running_loss, running_corrects, loss,
                   batch_corrects, loss_grad, train_loss, val_acc, best_acc,
                   last_header, last_line, phase_start_params, batch_log>>
    /\ UNCHANGED <<idxVars, itemVars, netVars>>

\* optimizer.zero_grad()
ZeroGradStep ==
    /\ t_pc = "zero_grad"
    /\ grad' = ZeroGrad(grad)
    /\ t_pc' = "forward"
    /\ UNCHANGED <<num_epochs, sizes, batch_size, epoch, phase_i, training,
                   params, running_loss, running_corrects, batch_i, cur_bs,
                   loss, batch_corrects, loss_grad, train_loss, val_acc,
                   best_acc, last_header, last_line, phase_start_params,
                   batch_log, n_backward, n_step>>
    /\ UNCHANGED <<idxVars, itemVars, netVars>>

\* with torch.set_grad_enabled(phase == 'train'): outputs = model(inputs);
\* _, preds = torch.max(outputs, 1); loss = criterion(outputs, labels);
\* then "if phase == 'train'" selects backward and step
Forward ==
    /\ t_pc = "forward"
    /\ loss' \in LossValues
    /\ batch_corrects' \in 0..cur_bs
    /\ loss_grad' \in (IF IsTrainPhase(phase) THEN GradValues ELSE {0})
    /\ t_pc' = IF IsTrainPhase(phase) THEN "backward" ELSE "accumulate"
    /\ UNCHANGED <<num_epochs, sizes, batch_size, epoch, phase_i, training,
                   params, grad, running_loss, running_corrects, batch_i, cur_bs,
                   train_loss, val_acc, best_acc, last_header, last_line,
                   phase_start_params, batch_log, n_backward, n_step>>
    /\ UNCHANGED <<idxVars, itemVars, netVars>>

\* loss.backward()
Backward ==
    /\ t_pc = "backward"
    /\ grad' = BackwardInto(grad, loss_grad)
    /\ n_backward' = n_backward + 1
    /\ t_pc' = "step"
    /\ UNCHANGED <<num_epochs, sizes, batch_size, epoch, phase_i, training,
                   params, running_loss, running_corrects, batch_i, cur_bs,
                   loss, batch_corrects, loss_grad, train_loss, val_acc,
                   best_acc, last_header, last_line, phase_start_params,
                   batch_log, n_step>>
    /\ UNCHANGED <<idxVars, itemVars, netVars>>

\* optimizer.step()
Step ==
    /\ t_pc = "step"
    /\ params' = OptimizerStep(params, grad)
    /\ n_step' = n_step + 1
    /\ t_pc' = "accumulate"
    /\ UNCHANGED <<num_epochs, sizes, batch_size, epoch, phase_i, training,
                   grad, running_loss, running_corrects, batch_i, cur_bs, loss,
                   batch_corrects, loss_grad, train_loss, val_acc, best_acc,
                   last_header, last_line, phase_start_params, batch_log,
                   n_backward>>
    /\ UNCHANGED <<idxVars, itemVars, netVars>>

\* running_loss += loss.item() * inputs.size(0);
\* running_corrects += torch.sum(preds == labels.data)
Accumulate ==
    /\ t_pc = "accumulate"
    /\ running_loss' = running_loss + LossTerm(loss, cur_bs)
    /\ running_corrects' = running_corrects + batch_corrects
    /\ batch_log' = Append(batch_log,
                           [bs |-> cur_bs, loss |-> loss, corrects |-> batch_corrects])
    /\ t_pc' = "batch_loop"
    /\ UNCHANGED <<num_epochs, sizes, batch_size, epoch, phase_i, training,
                   params, grad, batch_i, cur_bs, loss, batch_corrects,
                   loss_grad, train_loss, val_acc, best_acc, last_header,
                   last_line, phase_start_params, n_backward, n_step>>
    /\ UNCHANGED <<idxVars, itemVars, netVars>>

\* epoch_loss = running_loss / len(dataloaders[phase].dataset);
\* epoch_acc = running_corrects.double() / len(dataloaders[phase].dataset);
\* the append to train_loss or val_acc; the progress line
PhaseEnd ==
    /\ t_pc = "phase_end"
    /\ LET epoch_loss == <<running_loss, sizes[phase]>>
           epoch_acc  == <<running_corrects, sizes[phase]>>
       IN  /\ IF IsTrainPhase(phase)
              THEN train_loss' = Append(train_loss, epoch_loss)
                   /\ val_acc' = val_acc
              ELSE val_acc' = Append(val_acc, epoch_acc)
                   /\ train_loss' = train_loss
           /\ last_line' = [phase |-> phase, loss |-> epoch_loss, acc |-> epoch_acc]
    /\ phase_i' = phase_i + 1
    /\ t_pc' = "phase_loop"
    /\ UNCHANGED <<num_epochs, sizes, batch_size, epoch, training, params, grad,
                   running_loss, running_corrects, batch_i, cur_bs, loss,
                   batch_corrects, loss_grad, best_acc, last_header,
                   phase_start_params, batch_log, n_backward, n_step>>
    /\ UNCHANGED <<idxVars, itemVars, netVars>>

TrainNext ==
    \/ EpochLoop \/ PhaseLoop \/ BatchLoop \/ ZeroGradStep \/ Forward
    \/ Backward \/ Step \/ Accumulate \/ PhaseEnd

SpecTrain == TrainInit /\ [][TrainNext]_vars

----------------------------------------------------------------------------
(***************************************************************************)
(* Properties of the indexer, the guard and the split (SpecIndex).         *)
(***************************************************************************)

\* the files of d that the indexer is meant to find
Matching(d) ==
    {f \in d : /\ f.ext = "npy"
               /\ f.stem \in Range(class_labels)
               /\ f.idx \in 1..LastProbe}

ClassIndexOf(stem) ==
    (CHOOSE k \in DOMAIN class_labels : class_labels[k] = stem) - 1

FilesOfClass(d, stem) == {f \in Matching(d) : f.stem = stem}

Constructed == pc # "cell_d3561e74"

SplitReturned == pc \in {"done", "raised"} /\ error # EmptyMessage

IsPartition(tr, te, n) ==
    /\ Range(tr) \cup Range(te) = 0..(n - 1)
    /\ Range(tr) \cap Range(te) = {}
    /\ Len(tr) + Len(te) = n

TestSizeError ==
    "The test_size should be greater or equal to the number of classes"

\* C1: once the dataset is constructed, file_paths holds exactly the
\* existing files {class}_{i}.npy with class among the seven and i in
\* 1..20, each once, ordered by class in the declared order and then by i;
\* labels[k] is the class index (0..6) of file_paths[k]; and len(dataset)
\* is the number of such files.
C1_IndexerExact ==
    Constructed =>
        /\ Len(labels) = Len(file_paths)
        /\ Range(file_paths) = Matching(dir)
        /\ DatasetLen = Cardinality(Matching(dir))
        /\ \A k \in DOMAIN file_paths :
               /\ labels[k] \in 0..6
               /\ labels[k] = ClassIndexOf(file_paths[k].stem)
        /\ \A k \in 1..(Len(file_paths) - 1) :
               \/ labels[k] < labels[k + 1]
               \/ /\ labels[k] = labels[k + 1]
                  /\ file_paths[k].idx < file_paths[k + 1].idx

\* a constructed dataset over a directory that also holds files the indexer
\* must skip, with the last index present and several classes found
C1_Witness ==
    /\ Constructed
    /\ dir \ Matching(dir) # {}
    /\ Cardinality(Range(labels)) >= 2
    /\ \E k \in DOMAIN file_paths : file_paths[k].idx = LastProbe
    /\ \E k \in DOMAIN file_paths : file_paths[k].idx \notin {1, LastProbe}

\* C2 as stated: on a directory with no matching file the indexer itself
\* raises the configuration error, so a constructed dataset is never empty.
C2_IndexerRaises ==
    (Constructed /\ Matching(dir) = {}) => error = EmptyMessage

\* C2 as amended: the constructor returns the empty dataset without an
\* error; the guard of the next cell raises the configuration error, so an
\* empty dataset never reaches train_test_split, and the error is raised
\* only for an empty dataset.
C2_GuardStopsEmpty ==
    /\ pc \in {"train_test_split", "done"} => DatasetLen > 0
    /\ (Matching(dir) = {} /\ pc \notin {"cell_d3561e74", "cell_3f53122b"})
           => /\ pc = "raised"
              /\ error = EmptyMessage
              /\ train_idx = <<>> /\ val_idx = <<>>
    /\ error = EmptyMessage => (pc = "raised" /\ DatasetLen = 0)
    /\ (pc = "raised" /\ error # EmptyMessage) => DatasetLen > 0

\* the guard has fired on a directory that is not empty but holds no
\* matching file
C2_Witness ==
    /\ pc = "raised"
    /\ error = EmptyMessage
    /\ dir # {}

AllSevenAtLeastTwo ==
    \A s \in Range(class_labels) : Cardinality(FilesOfClass(dir, s)) >= 2

ExactlyTwoPerClass ==
    \A s \in Range(class_labels) : Cardinality(FilesOfClass(dir, s)) = 2

ClassesIn(idx) == {labels[i + 1] : i \in Range(idx)}

\* C4 as stated: 2 files per class give 14 entries and a split whose
\* validation set has 1..4 members with every class in both parts.
C4_TwoPerClassSplits ==
    (SplitReturned /\ ExactlyTwoPerClass)
        => /\ DatasetLen = 14
           /\ pc = "done"
           /\ Len(val_idx) \in 1..4
           /\ ClassesIn(val_idx) = 0..6
           /\ ClassesIn(train_idx) = 0..6

\* C4 as amended: 2 files per class give 14 entries, and the split with
\* test_size 0.2 asks for ceil(2.8) = 3 validation samples, fewer than the
\* 7 classes: the call raises the test-size ValueError and no validation
\* set is produced.
C4_TwoPerClassRaises ==
    (Constructed /\ ExactlyTwoPerClass)
        => /\ DatasetLen = 14
           /\ NTest(DatasetLen) = 3
           /\ pc # "done"
           /\ SplitReturned => (pc = "raised" /\ error = TestSizeError)
           /\ train_idx = <<>> /\ val_idx = <<>>

\* the split was called on 2 files per class and has raised
C4_Witness ==
    /\ ExactlyTwoPerClass
    /\ DatasetLen = 14
    /\ pc = "raised"
    /\ error = TestSizeError

----------------------------------------------------------------------------
(***************************************************************************)
(* Properties of __getitem__ (SpecItem) and of forward (SpecNet).          *)
(***************************************************************************)

InUnit(v) == v.kind = "finite" /\ v.den > 0 /\ 0 <= v.num /\ v.num <= v.den

IsZero(v) == v.kind = "finite" /\ v.den # 0 /\ v.num = 0

IsConstantCube(t) == Cardinality(Range(t.at)) = 1

\* what __getitem__ does establish: the shape is (C, 32, 32), and for a
\* cube that is not constant every value lies in [0, 1], with 0 and 1 both
\* attained
GetItemNonConstant ==
    g_pc = "return" =>
        /\ cube.shape = <<g_file.shape[3], ImageSide, ImageSide>>
        /\ DOMAIN cube.at = Indices(cube.shape)
        /\ ~IsConstantCube(g_file) =>
              /\ \A i \in DOMAIN cube.at : InUnit(cube.at[i])
              /\ \E i \in DOMAIN cube.at : IsZero(cube.at[i])
              /\ \E i \in DOMAIN cube.at : cube.at[i].num = cube.at[i].den

\* C7: __getitem__ returns a tensor of shape (C, 32, 32) whose values all
\* lie in [0, 1], and for a constant cube (max equals min) the division by
\* zero is guarded and the tensor is all zero.
C7_UnitRangeAndGuard ==
    g_pc = "return" =>
        /\ cube.shape = <<g_file.shape[3], ImageSide, ImageSide>>
        /\ \A i \in DOMAIN cube.at : InUnit(cube.at[i])
        /\ IsConstantCube(g_file) => \A i \in DOMAIN cube.at : IsZero(cube.at[i])

FromLoader == n_input[3] = ImageSide /\ n_input[4] = ImageSide

\* what forward does for the loader's cubes: it never gets past fc1,
\* whatever the number of bands
ForwardOfLoaderCubeRaises ==
    (n_pc # "idle" /\ FromLoader) => n_pc \notin {"fc2", "return"}

\* C10: for the loader's (C, 32, 32) cubes the flattened output of conv2
\* has exactly 64*15*15*53 features, so forward reaches fc1 without a shape
\* mismatch.
C10_Fc1InputMatches ==
    (n_pc # "idle" /\ FromLoader) =>
        /\ n_pc = "fc1" => x_shape[2] = Fc1In
        /\ n_error # "mat1 and mat2 shapes cannot be multiplied"

----------------------------------------------------------------------------
(***************************************************************************)
(* Properties of train_model (SpecTrain).                                  *)
(***************************************************************************)

\* train_model is inside a phase: between the phase's set-up and its
\* metrics
InPhase ==
    t_pc \in {"batch_loop", "zero_grad", "forward", "backward", "step",
              "accumulate", "phase_end"}

\* the samples the current phase has iterated
Seen == SumSeq([k \in DOMAIN batch_log |-> batch_log[k].bs])

\* C5: the val phase leaves the parameters as it found them: no backward
\* pass and no optimizer step happens in val (zero_grad is called there),
\* so during the val phase and at its end the parameters equal those at
\* its start.
C5_ValLeavesParams ==
    /\ (InPhase /\ phase = "val") =>
          /\ params = phase_start_params
          /\ t_pc \notin {"backward", "step"}
          /\ t_pc \in {"forward", "accumulate"} =>
                (n_backward = 0 /\ n_step = 0 /\ grad = 0)
    /\ (t_pc = "phase_loop" /\ phase_i = Len(Phases) + 1) =>
          params = phase_start_params

\* the val phase of the second epoch has ended after two batches, each
\* with its zero_grad, following train phases that stepped the parameters
C5_Witness ==
    /\ t_pc = "phase_loop" /\ phase_i = Len(Phases) + 1
    /\ epoch = 1
    /\ batch_i = 2
    /\ last_line.phase = "val"
    /\ params = 1

\* C6: train_model runs exactly num_epochs epochs in sequence, each the
\* train phase to its end and then the val phase, and returns only after
\* the last; after k completed epochs train_loss and val_acc both hold k
\* entries, entry e being the train loss, respectively the val accuracy, of
\* epoch e; on return both hold num_epochs entries.
C6_EpochsAndHistories ==
    /\ epoch <= num_epochs
    /\ t_pc = "return" =>
          /\ epoch = num_epochs
          /\ Len(train_loss) = num_epochs /\ Len(val_acc) = num_epochs
          /\ last_header = num_epochs
    /\ t_pc = "epoch_loop" =>
          (Len(train_loss) = epoch /\ Len(val_acc) = epoch)
    /\ (InPhase /\ phase = "train") =>
          /\ Len(train_loss) = epoch /\ Len(val_acc) = epoch
          /\ last_header = epoch + 1
    /\ (InPhase /\ phase = "val") =>
          /\ Len(train_loss) = epoch + 1 /\ Len(val_acc) = epoch
          /\ last_header = epoch + 1
    /\ (t_pc = "phase_loop" /\ phase_i = 2) =>
          /\ last_line.phase = "train"
          /\ Len(train_loss) = epoch + 1
          /\ train_loss[epoch + 1] = last_line.loss
    /\ (t_pc = "phase_loop" /\ phase_i = 3) =>
          /\ last_line.phase = "val"
          /\ Len(val_acc) = epoch + 1
          /\ val_acc[epoch + 1] = last_line.acc

\* train_model has returned after two epochs whose metrics differ
C6_Witness ==
    /\ t_pc = "return"
    /\ num_epochs = 2
    /\ Len(train_loss) = 2 /\ train_loss[1] # train_loss[2]
    /\ Len(val_acc) = 2 /\ val_acc[1] # val_acc[2]

\* C8: in the train phase every batch has exactly one backward pass
\* followed by exactly one optimizer step; the gradients are zero right
\* before each backward pass, so every step uses the gradient of the
\* current batch alone.
C8_OneBackwardOneStep ==
    /\ t_pc = "backward" =>
          (phase = "train" /\ grad = 0 /\ n_backward = 0 /\ n_step = 0)
    /\ t_pc = "step" =>
          (phase = "train" /\ grad = loss_grad /\ n_backward = 1 /\ n_step = 0)
    /\ (t_pc = "accumulate" /\ phase = "train") =>
          (grad = loss_grad /\ n_backward = 1 /\ n_step = 1)
    /\ (t_pc \in {"batch_loop", "phase_end"} /\ phase = "train" /\ batch_i >= 1) =>
          (n_backward = 1 /\ n_step = 1)

\* the optimizer is about to step on a non-zero gradient, for the second
\* batch of a later epoch
C8_Witness ==
    /\ t_pc = "step"
    /\ epoch >= 1
    /\ batch_i >= 2
    /\ grad = 1

IsLoss(q) == q[1] >= 0 /\ q[2] > 0

IsAccuracy(q) == 0 <= q[1] /\ q[1] <= q[2] /\ q[2] > 0

\* C9: in every phase the running loss and the running correct count
\* start at 0, each batch adds its loss times its size and its number of
\* correct predictions, and the epoch metrics are the running values
\* divided by the subset size, which is the number of samples iterated;
\* so the correct count never exceeds the subset size, the accuracy lies
\* in [0, 1] and the loss is not negative.
C9_RunningMetrics ==
    /\ (t_pc = "batch_loop" /\ batch_i = 0) =>
          (running_loss = 0 /\ running_corrects = 0)
    /\ t_pc \in {"batch_loop", "phase_end"} =>
          /\ Len(batch_log) = batch_i
          /\ running_loss =
                SumSeq([k \in DOMAIN batch_log |-> batch_log[k].loss * batch_log[k].bs])
          /\ running_corrects =
                SumSeq([k \in DOMAIN batch_log |-> batch_log[k].corrects])
    /\ InPhase => (running_corrects <= Seen /\ Seen <= sizes[phase])
    /\ t_pc = "phase_end" => Seen = sizes[phase]
    /\ (t_pc = "phase_loop" /\ phase_i > 1) =>
          /\ last_line.loss = <<running_loss, Seen>>
          /\ last_line.acc = <<running_corrects, Seen>>
          /\ IsLoss(last_line.loss)
          /\ IsAccuracy(last_line.acc)
    /\ \A k \in DOMAIN train_loss : IsLoss(train_loss[k])
    /\ \A k \in DOMAIN val_acc : IsAccuracy(val_acc[k])

\* a train phase over 3 samples in batches of 2 and 1 has recorded its
\* metrics, with a positive loss on both batches and one wrong prediction
C9_Witness ==
    /\ t_pc = "phase_loop" /\ phase_i = 2
    /\ sizes.train = 3 /\ batch_size = 2
    /\ last_line.loss = <<9, 3>>
    /\ last_line.acc = <<2, 3>>

============================================================================
